---- MODULE Spec2Model ----
(***************************************************************************)
(* Model of the risk processor (risk_processor.py): the polling loop of    *)
(* main(), process_once() and the store it works on, together with the     *)
(* trade generator (generate_data.py) that inserts NEW trades.             *)
(*                                                                         *)
(* The store is opened with isolation_level=None (risk_processor.py:188):  *)
(* sqlite3 then runs in autocommit mode, every conn.execute() is durable   *)
(* when it returns and conn.commit() (line 183) has no open transaction    *)
(* to commit.  The variables trades, risk_scores and alerts are therefore  *)
(* the durable content of the store at every step.                         *)
(***************************************************************************)
EXTENDS Integers, Sequences, FiniteSets, TLC

\* ---------------------------------------------------------------- bounds
\* trades the generator inserts in the specification with faults
MaxTrades == 3
\* trades the generator inserts in the fault-free specification
MaxBacklog == 21
\* restarts of the processor after a crash, an error or a cancellation
MaxRestarts == 2
\* runs of db_init.main on the store of a running processor
MaxSeedings == 2
\* largest combined score (in hundredths) _decide is evaluated on
MaxCombined == 400
\* longest list of raw reasons _translate_reasons is evaluated on
MaxReasons == 2

\* ------------------------------------------------------ program constants
\* _fetch_new_trades(conn, batch=20)
BatchSize == 20

\* ------------------------------------------------------------------ state
VARIABLES
  trades,       \* table trades: trades[id] = [trade_id, status], id = AUTOINCREMENT key
  risk_scores,  \* table risk_scores, rows in insertion order
  alerts,       \* table alerts, rows in insertion order
  alert_cols,   \* columns of table alerts (PRAGMA table_info(alerts))
  pc,           \* position of the processor
  rows,         \* process_once: the fetched batch
  i,            \* process_once: index in rows of the trade being handled
  lastError,    \* what ended the processor the last time it ended abnormally
  aborted,      \* internal ids of the batch in flight when the processor last ended
  restarts,     \* number of times main() has been started again
  alert_failed, \* trade_ids whose INSERT of _insert_alert_auto raised
  rules,        \* table rules, rows in insertion order
  sanctions,    \* table sanctions (column name), rows in insertion order
  seen,         \* rule_based_score: what its two SELECTs returned for each trade
                \* scored so far in the batch in flight
  call,         \* the function evaluated on its own and its arguments
  ret           \* what that evaluation returned

vars == <<trades, risk_scores, alerts, alert_cols, pc, rows, i, lastError, aborted, restarts,
          alert_failed, rules, sanctions, seen, call, ret>>

\* the evaluation of one function on its own
unit == <<call, ret>>

store == <<trades, risk_scores, alerts>>

\* the reference tables the rule engine reads
ref == <<rules, sanctions>>

\* positions inside process_once's for loop
InBatch == {"score", "mark", "alert", "commit"}
\* positions of a live processor
Running == {"start", "fetch", "sleep"} \cup InBatch
\* positions of a processor that has ended
Ended == {"failed", "crashed", "stopped"}

Min(a, b) == IF a <= b THEN a ELSE b

\* ---------------------------------------------------------- alerts layout
\* db_init.py schema_sql: alerts(id, trade_id, severity, message, created_at)
InitAlertCols == {"trade_id", "severity", "message"}

\* layouts the header comment and _insert_alert_auto distinguish
AlertLayouts ==
  { {"trade_id", "severity", "message"},
    {"trade_id", "level", "message"},
    {"trade_id", "level", "severity", "message"},
    {"trade_id", "message"},
    {"message"} }

\* ------------------------------------------------------------------ fetch
\* variant: LIMIT taken over the first rows by id, the status filter after it
fetch_limit_then_filter(tr, batch) ==
  LET ids == [k \in 1..Min(batch, Len(tr)) |-> k]
      new == SelectSeq(ids, LAMBDA k : tr[k].status = "NEW")
  IN  [k \in 1..Len(new) |-> [id |-> new[k], trade_id |-> tr[new[k]].trade_id]]

\* variant: ORDER BY id DESC
fetch_newest_first(tr, batch) ==
  LET ids == [k \in 1..Len(tr) |-> Len(tr) + 1 - k]
      new == SelectSeq(ids, LAMBDA k : tr[k].status = "NEW")
      lim == SubSeq(new, 1, Min(batch, Len(new)))
  IN  [k \in 1..Len(lim) |-> [id |-> lim[k], trade_id |-> tr[lim[k]].trade_id]]

\* variant: no WHERE status='NEW'
fetch_any_status(tr, batch) ==
  LET lim == [k \in 1..Min(batch, Len(tr)) |-> k]
  IN  [k \in 1..Len(lim) |-> [id |-> lim[k], trade_id |-> tr[lim[k]].trade_id]]

\* SELECT ... FROM trades WHERE status='NEW' ORDER BY id LIMIT batch
fetch_new_trades(tr, batch) ==
  LET ids == [k \in 1..Len(tr) |-> k]
      new == SelectSeq(ids, LAMBDA k : tr[k].status = "NEW")
      lim == SubSeq(new, 1, Min(batch, Len(new)))
  IN  [k \in 1..Len(lim) |-> [id |-> lim[k], trade_id |-> tr[lim[k]].trade_id]]

\* ---------------------------------------------------------------- writers
\* _persist_scores_auto: one INSERT INTO risk_scores for the trade
persist_scores_auto(scores, trade_id) ==
  Append(scores, [trade_id |-> trade_id, kind |-> "SCORE"])

\* variant: UPDATE trades SET status='PROCESSED' without the WHERE clause
mark_processed_all(tr, id) ==
  [k \in 1..Len(tr) |-> [tr[k] EXCEPT !.status = "PROCESSED"]]

\* UPDATE trades SET status='PROCESSED' WHERE id=?
\* variant: WHERE id >= ? in place of WHERE id = ?
mark_processed_from(tr, id) ==
  [k \in 1..Len(tr) |-> IF k >= id THEN [tr[k] EXCEPT !.status = "PROCESSED"] ELSE tr[k]]

mark_processed(tr, id) ==
  [tr EXCEPT ![id].status = "PROCESSED"]

\* _insert_alert_auto: the table and the row the alert goes to
insert_alert_auto(cols, trade_id) ==
  IF {"trade_id", "level", "message"} \subseteq cols
    THEN [table |-> "alerts", row |-> [trade_id |-> trade_id, kind |-> "level"]]
  ELSE IF {"trade_id", "severity", "message"} \subseteq cols
    THEN [table |-> "alerts", row |-> [trade_id |-> trade_id, kind |-> "severity"]]
  ELSE IF {"trade_id", "message"} \subseteq cols
    THEN [table |-> "alerts", row |-> [trade_id |-> trade_id, kind |-> "message"]]
  ELSE [table |-> "risk_scores", row |-> [trade_id |-> trade_id, kind |-> "ALERT_FALLBACK"]]

\* ------------------------------------------------------- decision classifier
\* Scores are fixed-point numbers in hundredths: 0.9 is 90, 1.5 is 150.

\* variant: strict comparisons
decide_strict(combined_score) ==
  IF combined_score > 150 THEN [decision |-> "BLOCK", severity |-> "CRITICAL"]
  ELSE IF combined_score > 90 THEN [decision |-> "REVIEW", severity |-> "WARNING"]
  ELSE [decision |-> "ALLOW", severity |-> "INFO"]

\* _decide(combined_score)
decide(combined_score) ==
  IF combined_score >= 150 THEN [decision |-> "BLOCK", severity |-> "CRITICAL"]
  ELSE IF combined_score >= 90 THEN [decision |-> "REVIEW", severity |-> "WARNING"]
  ELSE [decision |-> "ALLOW", severity |-> "INFO"]


\* ------------------------------------------------------------ string helpers
\* Python strings are TLA+ strings; TLC evaluates Len, SubSeq and \o on them.

\* s.startswith(p)
StartsWith(s, p) == Len(s) >= Len(p) /\ SubSeq(s, 1, Len(p)) = p

\* sub in s
Contains(s, sub) ==
  \E j \in 1..(Len(s) - Len(sub) + 1) : SubSeq(s, j, j + Len(sub) - 1) = sub

\* position of the first occurrence of the character ch in s, 0 when absent
IndexOf(s, ch) ==
  IF \E j \in 1..Len(s) : SubSeq(s, j, j) = ch
    THEN CHOOSE j \in 1..Len(s) :
           /\ SubSeq(s, j, j) = ch
           /\ \A h \in 1..(j - 1) : SubSeq(s, h, h) # ch
    ELSE 0

\* s.split(ch)[0]
SplitHead(s, ch) ==
  IF IndexOf(s, ch) = 0 THEN s ELSE SubSeq(s, 1, IndexOf(s, ch) - 1)

\* s.split(ch): the pieces between the occurrences of ch
RECURSIVE Split(_, _)
Split(s, ch) ==
  IF IndexOf(s, ch) = 0
    THEN <<s>>
    ELSE <<SubSeq(s, 1, IndexOf(s, ch) - 1)>>
           \o Split(SubSeq(s, IndexOf(s, ch) + 1, Len(s)), ch)

\* s.strip() for blanks
RECURSIVE Strip(_)
Strip(s) ==
  IF s = "" THEN s
  ELSE IF SubSeq(s, 1, 1) = " " THEN Strip(SubSeq(s, 2, Len(s)))
  ELSE IF SubSeq(s, Len(s), Len(s)) = " " THEN Strip(SubSeq(s, 1, Len(s) - 1))
  ELSE s

Upper == <<"A","B","C","D","E","F","G","H","I","J","K","L","M",
           "N","O","P","Q","R","S","T","U","V","W","X","Y","Z">>

Lower == <<"a","b","c","d","e","f","g","h","i","j","k","l","m",
           "n","o","p","q","r","s","t","u","v","w","x","y","z">>

LowerChar(ch) ==
  IF \E k \in 1..26 : Upper[k] = ch
    THEN Lower[CHOOSE k \in 1..26 : Upper[k] = ch]
    ELSE ch

\* s.lower()
RECURSIVE ToLower(_)
ToLower(s) ==
  IF s = "" THEN s
  ELSE LowerChar(SubSeq(s, 1, 1)) \o ToLower(SubSeq(s, 2, Len(s)))

\* sep.join(parts)
RECURSIVE Join(_, _)
Join(parts, sep) ==
  IF parts = <<>> THEN ""
  ELSE IF Len(parts) = 1 THEN parts[1]
  ELSE parts[1] \o sep \o Join(Tail(parts), sep)

\* str(x) of a float holding a whole number: 250000.0
FloatStr(x) == ToString(x) \o ".0"

\* f"{x:.2f}" of a non-negative score held in hundredths
Fixed2(x) ==
  ToString(x \div 100) \o "." \o ToString((x % 100) \div 10) \o ToString(x % 10)

\* re.search(pattern, s) for a pattern that is an alternation of literals
ReSearch(pattern, s) ==
  \E k \in 1..Len(Split(pattern, "|")) : Contains(s, Split(pattern, "|")[k])

\* --------------------------------------------------------------- rule engine
\* A column value is <<v>>, or <<>> when it is NULL (None); a trade is the
\* dict of a row: a function from column names to such values.

\* trade.get(key, default)
Get(trade, key, default) ==
  IF key \in DOMAIN trade THEN trade[key] ELSE <<default>>

\* the state of rule_based_score while it runs: raised names the exception
\* that ended it, "" while none has
RuleStart == [raised |-> "", score |-> 0, reasons |-> <<>>]

\* int(v) on a column value: TypeError on None
IntRaises(v) == v = <<>>

\* one turn of the for loop over the active rules
rule_step(acc, trade, rule) ==
  IF acc.raised # "" THEN acc
  ELSE IF rule.rule_name = "MAX_NOTIONAL" THEN
    IF trade["notional"][1] > rule.threshold
      THEN [acc EXCEPT !.score = @ + 60,
                       !.reasons = Append(@, "Notional " \o FloatStr(trade["notional"][1])
                                               \o " > " \o FloatStr(rule.threshold))]
      ELSE acc
  ELSE IF rule.rule_name = "BLACKLIST_COUNTRY" THEN
    IF ReSearch(rule.param, trade["country"][1])
      THEN [acc EXCEPT !.score = @ + 80,
                       !.reasons = Append(@, "Blacklisted country: " \o trade["country"][1])]
      ELSE acc
  ELSE IF rule.rule_name = "REQUIRE_KYC" THEN
    IF IntRaises(Get(trade, "kyc_ok", 0)) THEN [acc EXCEPT !.raised = "TypeError"]
    ELSE IF Get(trade, "kyc_ok", 0)[1] # 1
      THEN [acc EXCEPT !.score = @ + 70, !.reasons = Append(@, "KYC not verified")]
      ELSE acc
  ELSE IF rule.rule_name = "AML_FLAG_BLOCK" THEN
    IF IntRaises(Get(trade, "aml_flag", 0)) THEN [acc EXCEPT !.raised = "TypeError"]
    ELSE IF Get(trade, "aml_flag", 0)[1] = 1
      THEN [acc EXCEPT !.score = @ + 100, !.reasons = Append(@, "AML system flagged")]
      ELSE acc
  ELSE acc

\* variant: the loop ends at the first rule that added a weight
RECURSIVE rule_loop_first_hit(_, _, _)
rule_loop_first_hit(acc, trade, fetched) ==
  IF fetched = <<>> \/ acc.score > 0 THEN acc
  ELSE rule_loop_first_hit(rule_step(acc, trade, Head(fetched)), trade, Tail(fetched))

RECURSIVE rule_loop(_, _, _)
rule_loop(acc, trade, fetched) ==
  IF fetched = <<>> THEN acc
  ELSE rule_loop(rule_step(acc, trade, Head(fetched)), trade, Tail(fetched))

\* SELECT rule_name, threshold, param FROM rules WHERE active=1
active_rules(rules_table) == SelectSeq(rules_table, LAMBDA r : r.active = 1)

\* variant: the names compared without .lower()
sanctions_check_case_sensitive(acc, trade, sanctions_table) ==
  IF acc.raised # "" THEN acc
  ELSE IF \E k \in 1..Len(sanctions_table) :
            sanctions_table[k] = trade["counterparty"][1]
    THEN [acc EXCEPT !.score = @ + 120,
                     !.reasons = Append(@, "Counterparty on sanctions list")]
    ELSE acc

\* the sanctions check after the loop
sanctions_check(acc, trade, sanctions_table) ==
  IF acc.raised # "" THEN acc
  ELSE IF \E k \in 1..Len(sanctions_table) :
            ToLower(sanctions_table[k]) = ToLower(trade["counterparty"][1])
    THEN [acc EXCEPT !.score = @ + 120,
                     !.reasons = Append(@, "Counterparty on sanctions list")]
    ELSE acc

\* rule_based_score(trade, conn)
rule_based_score(trade, rules_table, sanctions_table) ==
  sanctions_check(rule_loop(RuleStart, trade, active_rules(rules_table)),
                  trade, sanctions_table)

\* --------------------------------------------------------- reason translator
\* the dict TRANSLATE in insertion order
TRANSLATE ==
  << <<"Notional {val} > {thr}", "Deal is bigger than our limit">>,
     <<"Country in blacklist", "Counterparty country is restricted">>,
     <<"KYC missing", "KYC not completed">>,
     <<"AML flag present", "AML system has red flags">>,
     <<"Sanctions name match", "Possible sanctions list match">> >>

\* prefix = k.split("{")[0].strip()
Prefix(k) == Strip(SplitHead(k, "{"))

\* the inner for loop: the phrase of the first entry whose prefix r starts
\* with, r itself when there is none
translate_one(r) ==
  IF \E k \in 1..Len(TRANSLATE) : StartsWith(r, Prefix(TRANSLATE[k][1]))
    THEN TRANSLATE[CHOOSE k \in 1..Len(TRANSLATE) :
                     /\ StartsWith(r, Prefix(TRANSLATE[k][1]))
                     /\ \A h \in 1..(k - 1) : ~StartsWith(r, Prefix(TRANSLATE[h][1]))][2]
    ELSE r

\* variant: a reason no prefix matches is dropped
translate_reasons_drop_unknown(raw_reasons) ==
  LET known == SelectSeq(raw_reasons, LAMBDA r : translate_one(r) # r)
  IN  [k \in 1..Len(known) |-> translate_one(known[k])]

\* _translate_reasons(raw_reasons)
translate_reasons(raw_reasons) ==
  [k \in 1..Len(raw_reasons) |-> translate_one(raw_reasons[k])]

\* ------------------------------------------------- scoring of one trade
\* process_once steps 1 to 3 and the alert message for a trade, with ml_s the
\* value ml_anomaly_score returned (in hundredths)
\* variant: the reasons text is always the joined list, with no default
score_trade_no_default(trade, rules_table, sanctions_table, ml_s) ==
  LET r == rule_based_score(trade, rules_table, sanctions_table)
      combined == r.score + ml_s
      d == decide(combined)
      reasons == translate_reasons(r.reasons)
      reasons_str == Join(reasons, "; ")
  IN  IF r.raised # ""
        THEN [raised |-> r.raised]
        ELSE [raised |-> "",
              trade_id |-> trade["trade_id"][1],
              rule_score |-> r.score,
              ml_score |-> ml_s,
              combined |-> combined,
              decision |-> d.decision,
              severity |-> d.severity,
              raw_reasons |-> r.reasons,
              reasons |-> reasons,
              reasons_str |-> reasons_str,
              msg |-> d.decision \o " trade " \o trade["trade_id"][1] \o " score="
                        \o Fixed2(combined) \o " reasons: " \o reasons_str]

score_trade(trade, rules_table, sanctions_table, ml_s) ==
  LET r == rule_based_score(trade, rules_table, sanctions_table)
      combined == r.score + ml_s
      d == decide(combined)
      reasons == translate_reasons(r.reasons)
      reasons_str == IF reasons # <<>> THEN Join(reasons, "; ") ELSE "No rule violations"
  IN  IF r.raised # ""
        THEN [raised |-> r.raised]
        ELSE [raised |-> "",
              trade_id |-> trade["trade_id"][1],
              rule_score |-> r.score,
              ml_score |-> ml_s,
              combined |-> combined,
              decision |-> d.decision,
              severity |-> d.severity,
              raw_reasons |-> r.reasons,
              reasons |-> reasons,
              reasons_str |-> reasons_str,
              msg |-> d.decision \o " trade " \o trade["trade_id"][1] \o " score="
                        \o Fixed2(combined) \o " reasons: " \o reasons_str]

\* ------------------------------------------------------------------- Init
\* db_init.seed_reference_data: the four rules, all active
SeedRules ==
  << [rule_name |-> "MAX_NOTIONAL", threshold |-> 100000, param |-> "USD", active |-> 1],
     [rule_name |-> "BLACKLIST_COUNTRY", threshold |-> 1, param |-> "RU|IR|KP", active |-> 1],
     [rule_name |-> "REQUIRE_KYC", threshold |-> 1, param |-> "TRUE", active |-> 1],
     [rule_name |-> "AML_FLAG_BLOCK", threshold |-> 1, param |-> "TRUE", active |-> 1] >>

\* data/sanctions_list.csv as db_init.seed_reference_data loads it
SanctionsCsv == <<"Shadow Corp">>

InitCommon ==
  /\ rules = SeedRules
  /\ sanctions = SanctionsCsv
  /\ seen = <<>>
  /\ trades = <<>>
  /\ risk_scores = <<>>
  /\ alerts = <<>>
  /\ pc = "start"
  /\ rows = <<>>
  /\ i = 0
  /\ lastError = "none"
  /\ aborted = {}
  /\ restarts = 0
  /\ alert_failed = {}
  /\ call = [fn |-> "none"]
  /\ ret = [fn |-> "none"]

Init == InitCommon /\ alert_cols \in AlertLayouts

InitFifo == InitCommon /\ alert_cols = InitAlertCols

\* ---------------------------------------------------------------- helpers
BatchIds == {rows[k].id : k \in 1..Len(rows)}

\* the processor ends with an uncaught exception: main() catches only
\* KeyboardInterrupt, the finally clause closes the connection
Fail(err) ==
  /\ pc' = "failed"
  /\ lastError' = err
  /\ aborted' = BatchIds
  /\ rows' = <<>>
  /\ seen' = <<>>
  /\ i' = 0

\* ---------------------------------------------------------------- actions
\* generate_data.main: one INSERT INTO trades(..., status) with status NEW
GenerateTrade(limit) ==
  /\ Len(trades) < limit
  /\ trades' = Append(trades, [trade_id |-> Len(trades) + 1, status |-> "NEW"])
  /\ UNCHANGED <<risk_scores, alerts, alert_cols, pc, rows, i, lastError, aborted, restarts,
               alert_failed, seen, ref, unit>>

\* main: model = load_model()
LoadModel(outcomes) ==
  /\ pc = "start"
  /\ \E ok \in outcomes :
       IF ok
         THEN /\ pc' = "fetch"
              /\ UNCHANGED <<rows, i, lastError, aborted, seen>>
         ELSE Fail("model")
  /\ UNCHANGED <<store, alert_cols, restarts, alert_failed, ref, unit>>

\* process_once: rows = _fetch_new_trades(conn); if not rows: return 0
Fetch(outcomes) ==
  /\ pc = "fetch"
  /\ \E ok \in outcomes :
       IF ok
         THEN /\ rows' = fetch_new_trades(trades, BatchSize)
              /\ IF rows' = <<>>
                   THEN pc' = "sleep" /\ i' = 0
                   ELSE pc' = "score" /\ i' = 1
              /\ lastError' = "none"
              /\ aborted' = {}
              /\ seen' = <<>>
         ELSE Fail("fetch")
  /\ UNCHANGED <<store, alert_cols, restarts, alert_failed, ref, unit>>

\* main: if n == 0: time.sleep(2.0)
Sleep ==
  /\ pc = "sleep"
  /\ pc' = "fetch"
  /\ UNCHANGED <<store, alert_cols, rows, i, lastError, aborted, restarts, alert_failed, seen,
               ref, unit>>

\* process_once step 4: _persist_scores_auto(conn, trade_id=tr["trade_id"], ...)
PersistScore(outcomes) ==
  /\ pc = "score"
  /\ \E ok \in outcomes :
       IF ok
         THEN /\ risk_scores' = persist_scores_auto(risk_scores, rows[i].trade_id)
              /\ seen' = Append(seen, [rules |-> active_rules(rules), sanctions |-> sanctions])
              /\ pc' = "mark"
              /\ UNCHANGED <<rows, i, lastError, aborted>>
         ELSE Fail("score") /\ UNCHANGED risk_scores
  /\ UNCHANGED <<trades, alerts, alert_cols, restarts, alert_failed, ref, unit>>

\* process_once step 5: UPDATE trades SET status='PROCESSED' WHERE id=tr["id"]
MarkProcessed(outcomes) ==
  /\ pc = "mark"
  /\ \E ok \in outcomes :
       IF ok
         THEN /\ trades' = mark_processed(trades, rows[i].id)
              /\ pc' = "alert"
              /\ UNCHANGED <<rows, i, lastError, aborted, seen>>
         ELSE Fail("status") /\ UNCHANGED trades
  /\ UNCHANGED <<risk_scores, alerts, alert_cols, restarts, alert_failed, ref, unit>>

\* variant: the alert write dedented out of the for loop, so that it runs once,
\* for the last trade of the batch
InsertAlertLastOnly(outcomes) ==
  /\ pc = "alert"
  /\ \E ok \in outcomes :
       IF ok
         THEN /\ IF i < Len(rows)
                   THEN /\ pc' = "score" /\ i' = i + 1
                        /\ UNCHANGED <<risk_scores, alerts>>
                   ELSE /\ pc' = "commit" /\ i' = i
                        /\ LET w == insert_alert_auto(alert_cols, rows[i].trade_id)
                           IN  IF w.table = "alerts"
                                 THEN alerts' = Append(alerts, w.row) /\ UNCHANGED risk_scores
                                 ELSE risk_scores' = Append(risk_scores, w.row) /\ UNCHANGED alerts
              /\ UNCHANGED <<rows, lastError, aborted, alert_failed, seen>>
         ELSE /\ Fail("alert")
              /\ alert_failed' = alert_failed \cup {rows[i].trade_id}
              /\ UNCHANGED <<risk_scores, alerts>>
  /\ UNCHANGED <<trades, alert_cols, restarts, ref, unit>>

\* process_once step 6: _insert_alert_auto(conn, tr["trade_id"], ...), then
\* the next trade of the batch or the end of the for loop
InsertAlert(outcomes) ==
  /\ pc = "alert"
  /\ \E ok \in outcomes :
       IF ok
         THEN /\ LET w == insert_alert_auto(alert_cols, rows[i].trade_id)
                 IN  IF w.table = "alerts"
                       THEN alerts' = Append(alerts, w.row) /\ UNCHANGED risk_scores
                       ELSE risk_scores' = Append(risk_scores, w.row) /\ UNCHANGED alerts
              /\ IF i < Len(rows)
                   THEN pc' = "score" /\ i' = i + 1
                   ELSE pc' = "commit" /\ i' = i
              /\ UNCHANGED <<rows, lastError, aborted, alert_failed, seen>>
         ELSE /\ Fail("alert")
              /\ alert_failed' = alert_failed \cup {rows[i].trade_id}
              /\ UNCHANGED <<risk_scores, alerts>>
  /\ UNCHANGED <<trades, alert_cols, restarts, ref, unit>>

\* variant: time.sleep(2.0) after every process_once, whatever it returned
CommitThenSleep ==
  /\ pc = "commit"
  /\ pc' = "sleep"
  /\ rows' = <<>>
  /\ seen' = <<>>
  /\ i' = 0
  /\ UNCHANGED <<store, alert_cols, lastError, aborted, restarts, alert_failed, ref, unit>>

\* process_once: conn.commit(); return len(rows)   (n != 0: no sleep)
Commit ==
  /\ pc = "commit"
  /\ pc' = "fetch"
  /\ rows' = <<>>
  /\ seen' = <<>>
  /\ i' = 0
  /\ UNCHANGED <<store, alert_cols, lastError, aborted, restarts, alert_failed, ref, unit>>

\* the processor is killed (or the machine stops) at any point
Crash ==
  /\ pc \in Running
  /\ pc' = "crashed"
  /\ lastError' = "crash"
  /\ aborted' = BatchIds
  /\ rows' = <<>>
  /\ seen' = <<>>
  /\ i' = 0
  /\ UNCHANGED <<store, alert_cols, restarts, alert_failed, ref, unit>>

\* main: except KeyboardInterrupt: print("Stopping processor."); finally: conn.close()
Interrupt ==
  /\ pc \in Running \ {"start"}
  /\ pc' = "stopped"
  /\ lastError' = "interrupt"
  /\ aborted' = BatchIds
  /\ rows' = <<>>
  /\ seen' = <<>>
  /\ i' = 0
  /\ UNCHANGED <<store, alert_cols, restarts, alert_failed, ref, unit>>

\* main() is started again on the same store
Restart ==
  /\ pc \in Ended
  /\ restarts < MaxRestarts
  /\ pc' = "start"
  /\ restarts' = restarts + 1
  /\ UNCHANGED <<store, alert_cols, rows, i, lastError, aborted, alert_failed, seen, ref, unit>>

\* db_init.main run again on the store while the processor runs: CREATE TABLE
\* IF NOT EXISTS changes nothing, seed_reference_data INSERTs the four rules
\* and the sanctions of the csv once more, conn.commit() makes them visible
SeedReferenceData ==
  /\ Len(rules) < Len(SeedRules) * (MaxSeedings + 1)
  /\ rules' = rules \o SeedRules
  /\ sanctions' = sanctions \o SanctionsCsv
  /\ UNCHANGED <<store, alert_cols, pc, rows, i, lastError, aborted, restarts, alert_failed,
                 seen, unit>>

\* --------------------------------------------------------- specifications
Next ==
  \/ GenerateTrade(MaxTrades)
  \/ LoadModel(BOOLEAN)
  \/ Fetch(BOOLEAN)
  \/ Sleep
  \/ PersistScore(BOOLEAN)
  \/ MarkProcessed(BOOLEAN)
  \/ InsertAlert(BOOLEAN)
  \/ Commit
  \/ Crash
  \/ Interrupt
  \/ Restart

Spec == Init /\ [][Next]_vars

\* the processor while it is not cancelled and store operations succeed
Processor ==
  \/ LoadModel({TRUE})
  \/ Fetch({TRUE})
  \/ Sleep
  \/ PersistScore({TRUE})
  \/ MarkProcessed({TRUE})
  \/ InsertAlert({TRUE})
  \/ Commit

NextFifo ==
  \/ GenerateTrade(MaxBacklog)
  \/ Processor

\* the processor, the generator and db_init on one store
NextOperator ==
  \/ Next
  \/ SeedReferenceData

OperatorSpec == InitFifo /\ [][NextOperator]_vars

\* main's while True loop always takes its next step
FifoSpec == InitFifo /\ [][NextFifo]_vars /\ WF_vars(Processor)

\* -------------------------------------------------------- evaluation inputs
\* contents of table rules the functions are evaluated on: the seed, the seed
\* after db_init.main ran twice (plain INSERT, no unique key), the seed with a
\* rule switched off, with a rule of an unknown name, and no rule at all
RuleTables ==
  { SeedRules,
    SeedRules \o SeedRules,
    [SeedRules EXCEPT ![3].active = 0],
    Append(SeedRules, [rule_name |-> "VELOCITY", threshold |-> 5, param |-> "", active |-> 1]),
    <<>> }

\* contents of table sanctions (column name)
SanctionTables == { <<>>, <<"SHADOW CORP", "Acme">>, <<"Acme", "shadow corp", "Shadow Corp">> }

\* column values of the trades evaluated
Notionals == {50000, 100000, 250000}

Countries == {"US", "RU"}

Counterparties == {"CPTY_A", "Shadow Corp"}

Flags == {<<0>>, <<1>>, <<>>}

\* dict(zip(cols, row)) of _fetch_new_trades: every column is a key, a NULL
\* column has the value None.  Only the columns the rule engine and the
\* message read are kept.
FetchedTrades ==
  { [trade_id |-> <<"T1">>, counterparty |-> <<c>>, country |-> <<k>>,
     notional |-> <<n>>, kyc_ok |-> y, aml_flag |-> a] :
      c \in Counterparties, k \in Countries, n \in Notionals, y \in Flags, a \in Flags }

\* the dict without some of its keys
Without(trade, keys) == [k \in (DOMAIN trade) \ keys |-> trade[k]]

\* trades rule_based_score is evaluated on: fetched ones, and dicts that lack
\* the key kyc_ok or aml_flag
EngineTrades ==
  FetchedTrades
    \cup { Without(t, {"kyc_ok"}) : t \in FetchedTrades }
    \cup { Without(t, {"aml_flag"}) : t \in FetchedTrades }

\* raw reasons _translate_reasons is evaluated on: those the rule engine
\* produces, strings starting with a key of TRANSLATE, and others
RawReasons ==
  { "Notional 250000.0 > 100000.0", "Notional 7.5 > 1.0", "Notional",
    "Blacklisted country: RU", "KYC not verified", "AML system flagged",
    "Counterparty on sanctions list",
    "Country in blacklist", "KYC missing for client", "AML flag present",
    "Sanctions name match: Acme", "notional 5.0 > 1.0", "" }

RawReasonLists == UNION { [1..n -> RawReasons] : n \in 0..MaxReasons }

\* values of ml_anomaly_score, in hundredths
MlScores == {0, 50, 100}

\* ------------------------------------------------------ score and alert layouts
\* db_init.py schema_sql: columns of risk_scores
InitScoreCols ==
  {"id", "trade_id", "base_rule_score", "ml_anomaly_score", "combined_score",
   "decision", "reason", "created_at"}

\* column names a risk_scores table is made of in the evaluations
ScoreColumns ==
  InitScoreCols \cup {"rule_score", "ml_score", "severity", "reasons"}

\* column names an alerts table is made of in the evaluations
AlertColumns == {"id", "trade_id", "level", "severity", "message", "created_at"}

\* the sets the issubset tests of _persist_scores_auto name
NewerRequired == {"rule_score", "ml_score", "combined_score", "decision", "severity", "reasons"}

OlderRequired == {"base_rule_score", "ml_anomaly_score", "combined_score", "decision", "reason"}

\* variant: the older layout tested first
score_layout_older_first(cols) ==
  IF OlderRequired \subseteq cols THEN "older"
  ELSE IF NewerRequired \subseteq cols THEN "newer"
  ELSE "minimal"

\* the branch _persist_scores_auto takes
score_layout(cols) ==
  IF NewerRequired \subseteq cols THEN "newer"
  ELSE IF OlderRequired \subseteq cols THEN "older"
  ELSE "minimal"

\* the columns the INSERT of a branch names
insert_columns(layout) ==
  CASE layout = "newer" ->
         {"trade_id", "rule_score", "ml_score", "combined_score", "decision", "severity", "reasons"}
    [] layout = "older" ->
         {"trade_id", "base_rule_score", "ml_anomaly_score", "combined_score", "decision", "reason"}
    [] layout = "minimal" ->
         {"trade_id", "combined_score", "decision"}

\* the INSERT _persist_scores_auto executes on a table with columns cols;
\* sqlite raises OperationalError (no such column) when it names a column the
\* table does not have
persist_scores_stmt(cols) ==
  [layout |-> score_layout(cols),
   columns |-> insert_columns(score_layout(cols)),
   raised |-> IF insert_columns(score_layout(cols)) \subseteq cols
                THEN "" ELSE "OperationalError"]

\* the risk_scores tables process_once is evaluated on: the newer layout, the
\* one db_init creates (older), and one with the minimal columns only
ScoreLayouts ==
  { {"id", "trade_id"} \cup NewerRequired,
    InitScoreCols,
    {"id", "trade_id", "combined_score", "decision"} }

\* variant: the values bound one position off in the older layout's INSERT
score_row_shifted(layout, r) ==
  CASE layout = "newer" ->
         [trade_id |-> r.trade_id, rule_score |-> r.rule_score, ml_score |-> r.ml_score,
          combined_score |-> r.combined, decision |-> r.decision, severity |-> r.severity,
          reasons |-> r.reasons_str]
    [] layout = "older" ->
         [trade_id |-> r.trade_id, base_rule_score |-> r.rule_score,
          ml_anomaly_score |-> r.ml_score, combined_score |-> r.ml_score,
          decision |-> r.decision, reason |-> r.reasons_str]
    [] layout = "minimal" ->
         [trade_id |-> r.trade_id, combined_score |-> r.combined, decision |-> r.decision]

\* the row the INSERT of _persist_scores_auto writes for the scoring r
score_row(layout, r) ==
  CASE layout = "newer" ->
         [trade_id |-> r.trade_id, rule_score |-> r.rule_score, ml_score |-> r.ml_score,
          combined_score |-> r.combined, decision |-> r.decision, severity |-> r.severity,
          reasons |-> r.reasons_str]
    [] layout = "older" ->
         [trade_id |-> r.trade_id, base_rule_score |-> r.rule_score,
          ml_anomaly_score |-> r.ml_score, combined_score |-> r.combined,
          decision |-> r.decision, reason |-> r.reasons_str]
    [] layout = "minimal" ->
         [trade_id |-> r.trade_id, combined_score |-> r.combined, decision |-> r.decision]

\* the row the INSERT of _insert_alert_auto writes, by the branch taken
alert_row(kind, trade_id, severity_text, message) ==
  CASE kind = "level" -> [trade_id |-> trade_id, level |-> severity_text, message |-> message]
    [] kind = "severity" -> [trade_id |-> trade_id, severity |-> severity_text, message |-> message]
    [] kind = "message" -> [trade_id |-> trade_id, message |-> message]
    [] kind = "ALERT_FALLBACK" ->
         [trade_id |-> trade_id, combined_score |-> 0,
          decision |-> "ALERT_FALLBACK:" \o severity_text]

\* the body of process_once's for loop for one trade: what it appends to
\* risk_scores and to alerts, the status it leaves and the exception that
\* ended it
process_trade(trade, rules_table, sanctions_table, ml_s, cols, acols) ==
  LET r == score_trade(trade, rules_table, sanctions_table, ml_s)
      stmt == persist_scores_stmt(cols)
      a == insert_alert_auto(acols, r.trade_id)
      arow == alert_row(a.row.kind, r.trade_id, r.severity, r.msg)
  IN  IF r.raised # ""
        THEN [raised |-> r.raised, status |-> "NEW", score_rows |-> <<>>, alert_rows |-> <<>>]
      ELSE IF stmt.raised # ""
        THEN [raised |-> stmt.raised, status |-> "NEW", score_rows |-> <<>>, alert_rows |-> <<>>]
      ELSE IF a.table = "alerts"
        THEN [raised |-> "", status |-> "PROCESSED",
              score_rows |-> <<score_row(stmt.layout, r)>>, alert_rows |-> <<arow>>]
        ELSE [raised |-> "", status |-> "PROCESSED",
              score_rows |-> <<score_row(stmt.layout, r), arow>>, alert_rows |-> <<>>]

\* ------------------------------------------- functions evaluated on their own
\* the loop's variables, untouched by an evaluation
loop == <<trades, risk_scores, alerts, alert_cols, pc, rows, i, lastError, aborted,
          restarts, alert_failed, rules, sanctions, seen>>

InitUnit == InitCommon /\ alert_cols = InitAlertCols

\* _decide(combined)
CallDecide ==
  /\ call.fn \in {"none", "_decide"}
  /\ \E c \in (0 - MaxCombined)..MaxCombined :
       /\ call' = [fn |-> "_decide", combined |-> c]
       /\ ret' = decide(c)
  /\ UNCHANGED loop

\* rule_based_score(trade, conn)
CallRuleBasedScore ==
  /\ call.fn = "none"
  /\ \E t \in EngineTrades, rt \in RuleTables, st \in SanctionTables :
       /\ call' = [fn |-> "rule_based_score", trade |-> t, rules |-> rt, sanctions |-> st]
       /\ ret' = rule_based_score(t, rt, st)
  /\ UNCHANGED loop

\* process_once steps 1 to 3 on a fetched trade
CallScoreTrade ==
  /\ call.fn = "none"
  /\ \E t \in FetchedTrades, rt \in RuleTables, st \in SanctionTables, ml \in MlScores :
       /\ call' = [fn |-> "score_trade", trade |-> t, rules |-> rt, sanctions |-> st, ml_s |-> ml]
       /\ ret' = score_trade(t, rt, st, ml)
  /\ UNCHANGED loop

\* _persist_scores_auto(conn, ...) on a risk_scores table with columns cols
CallPersistScores ==
  /\ call.fn = "none"
  /\ \E cols \in SUBSET ScoreColumns :
       /\ call' = [fn |-> "_persist_scores_auto", cols |-> cols]
       /\ ret' = persist_scores_stmt(cols)
  /\ UNCHANGED loop

\* _insert_alert_auto(conn, trade_id, ...) on an alerts table with columns cols
CallInsertAlert ==
  /\ call.fn = "none"
  /\ \E cols \in SUBSET AlertColumns :
       /\ call' = [fn |-> "_insert_alert_auto", cols |-> cols]
       /\ ret' = insert_alert_auto(cols, "T1")
  /\ UNCHANGED loop

\* _translate_reasons(raw_reasons)
CallTranslateReasons ==
  /\ call.fn = "none"
  /\ \E raw \in RawReasonLists :
       /\ call' = [fn |-> "_translate_reasons", raw_reasons |-> raw]
       /\ ret' = [pretty |-> translate_reasons(raw)]
  /\ UNCHANGED loop

\* the body of process_once's for loop on a fetched trade
CallProcessTrade ==
  /\ call.fn = "none"
  /\ \E t \in FetchedTrades, rt \in RuleTables, st \in SanctionTables, ml \in MlScores,
        sc \in ScoreLayouts, ac \in AlertLayouts :
       /\ call' = [fn |-> "process_trade", trade |-> t, rules |-> rt, sanctions |-> st,
                   ml_s |-> ml, score_cols |-> sc, alert_cols |-> ac]
       /\ ret' = process_trade(t, rt, st, ml, sc, ac)
  /\ UNCHANGED loop

NextUnit ==
  \/ CallDecide
  \/ CallProcessTrade
  \/ CallTranslateReasons
  \/ CallRuleBasedScore
  \/ CallScoreTrade
  \/ CallPersistScores
  \/ CallInsertAlert

UnitSpec == InitUnit /\ [][NextUnit]_vars

\* ----------------------------------------------------------------- claims
\* ScoreResult rows of a trade: the rows _persist_scores_auto wrote for it
ScoreRows(trade_id) ==
  {k \in 1..Len(risk_scores) :
     risk_scores[k].trade_id = trade_id /\ risk_scores[k].kind = "SCORE"}

Ids == 1..Len(trades)

IsNew(id) == trades[id].status = "NEW"

IsProcessed(id) == trades[id].status = "PROCESSED"

Scored(id) == ScoreRows(trades[id].trade_id) # {}

AllProcessed == \A id \in Ids : IsProcessed(id)

\* C1: whatever the loop iterations, crashes and restarts, no trade has more
\* than one ScoreResult row in risk_scores.
C1_ScoredAtMostOnce ==
  \A id \in Ids : Cardinality(ScoreRows(trades[id].trade_id)) <= 1

\* C2: in every durable state of the store, also the one a crash leaves,
\* every PROCESSED trade has a ScoreResult row (the score write is durable no
\* later than the status flip).
C2_ProcessedHasScore ==
  \A id \in Ids : IsProcessed(id) => Scored(id)

\* a crash, an error or a cancellation has happened with a trade PROCESSED
\* and a later trade of the same batch scored but not yet flipped
C2_Witness ==
  /\ pc \in Ended
  /\ \E id \in aborted : IsProcessed(id) /\ Scored(id)
  /\ \E id \in aborted : IsNew(id) /\ Scored(id)

\* C3: the score writes and status flips of a batch become durable together
\* at the commit ending process_once: a crash before it leaves no score row
\* and no status flip of the batch in the store.
C3_BatchDurableTogether ==
  pc = "crashed" => \A id \in aborted : IsNew(id) /\ ~Scored(id)

\* C4: a failed alert write is swallowed: the processor does not end on it.
C4_AlertFailureSwallowed ==
  ~(pc = "failed" /\ lastError = "alert")

\* C5: a store error of a fetch, a score write or a status update never ends
\* the processing loop; only a model-load failure ends the process.
C5_StoreErrorKeepsLoop ==
  pc = "failed" => lastError \notin {"fetch", "score", "status"}

\* C6: after a failed score write or status update the whole batch is
\* aborted: at the next fetch every trade of the batch is NEW and has no
\* ScoreResult row.
C6_BatchAbortedWhole ==
  (pc = "fetch" /\ lastError \in {"score", "status"})
    => \A id \in aborted : IsNew(id) /\ ~Scored(id)

\* C7: a cancellation (KeyboardInterrupt) leaves no partial per-trade write:
\* a trade has a ScoreResult row if and only if it is PROCESSED.
C7_CancelLeavesNoPartialWrite ==
  pc = "stopped" => \A id \in Ids : Scored(id) <=> IsProcessed(id)

\* C8: while the loop is not cancelled and store operations succeed, every
\* trade inserted with status NEW is eventually PROCESSED, also while the
\* generator keeps inserting trades.
C8_EventuallyProcessed ==
  \A id \in 1..MaxBacklog :
    (id \in Ids /\ IsNew(id)) ~> (id \in Ids /\ IsProcessed(id))

\* more trades than one batch holds were inserted and all are PROCESSED
C8_Witness ==
  /\ Len(trades) > BatchSize
  /\ AllProcessed

\* C9: a fetch returns at most 20 trades, all NEW, in ascending id, and the
\* oldest ones (every fetched id is below every unfetched NEW id); trades
\* become PROCESSED in ascending id order (no NEW trade below a PROCESSED one).
C9_FetchOldestFirst ==
  /\ Len(rows) <= 20
  /\ \A j, k \in 1..Len(rows) : j < k => rows[j].id < rows[k].id
  /\ \A k \in 1..Len(rows) :
       (k > i \/ (k = i /\ pc \in {"score", "mark"})) => IsNew(rows[k].id)
  /\ \A k \in 1..Len(rows) : \A u \in Ids :
       (u \notin BatchIds /\ IsNew(u)) => rows[k].id < u
  /\ \A t, u \in Ids : (u < t /\ IsProcessed(t)) => ~IsNew(u)

\* a full batch is in flight, its first trade is flipped, and a NEW trade
\* was left unfetched
C9_Witness ==
  /\ Len(rows) = 20
  /\ pc \in InBatch
  /\ IsProcessed(rows[1].id)
  /\ \E u \in Ids : u \notin BatchIds /\ IsNew(u)

\* C10: process_once against a store in which every trade is PROCESSED
\* writes no score row, no alert row and no status, and returns 0 (the loop
\* goes to sleep).
C10_IdempotentWhenAllProcessed ==
  [][(AllProcessed /\ pc \in {"fetch", "sleep"} /\ Len(trades') = Len(trades))
       => /\ store' = store
          /\ pc = "fetch" => (pc' = "sleep" /\ rows' = <<>>)]_vars

\* the loop has fetched from a non-empty store of PROCESSED trades and sleeps
C10_Witness ==
  /\ Len(trades) > 0
  /\ AllProcessed
  /\ pc = "sleep"

\* order of the decisions, least severe first
Rank(decision) ==
  CASE decision = "ALLOW" -> 0 [] decision = "REVIEW" -> 1 [] decision = "BLOCK" -> 2

\* C11: _decide is a total, monotonic step function: combined >= 1.5 gives
\* (BLOCK, CRITICAL), 0.9 <= combined < 1.5 gives (REVIEW, WARNING), combined
\* < 0.9 gives (ALLOW, INFO); 0.9 and 1.5 themselves map to REVIEW and BLOCK.
C11_DecideStepFunction ==
  /\ [](call.fn = "_decide" =>
          /\ call.combined >= 150
               => ret = [decision |-> "BLOCK", severity |-> "CRITICAL"]
          /\ (90 <= call.combined /\ call.combined < 150)
               => ret = [decision |-> "REVIEW", severity |-> "WARNING"]
          /\ call.combined < 90
               => ret = [decision |-> "ALLOW", severity |-> "INFO"])
  /\ [][(call.fn = "_decide" /\ call'.fn = "_decide" /\ call.combined <= call'.combined)
          => Rank(ret.decision) <= Rank(ret'.decision)]_vars

\* _decide was evaluated on the boundary 1.5
C11_Witness ==
  /\ call.fn = "_decide"
  /\ call.combined = 150
  /\ ret.decision = "BLOCK"

\* the rows of a rules table that are not MAX_NOTIONAL rows
WithoutMaxNotional(rules_table) ==
  SelectSeq(rules_table, LAMBDA r : r.rule_name # "MAX_NOTIONAL")

\* thresholds of the active MAX_NOTIONAL rows of a rules table
MaxNotionalThresholds(rules_table) ==
  {rules_table[k].threshold : k \in {j \in 1..Len(rules_table) :
     rules_table[j].rule_name = "MAX_NOTIONAL" /\ rules_table[j].active = 1}}

\* the MAX_NOTIONAL reasons among a list of raw reasons
NotionalReasons(reasons) ==
  {k \in 1..Len(reasons) : StartsWith(reasons[k], "Notional ")}

\* C12: with a notional at or below the MAX_NOTIONAL threshold no
\* MAX_NOTIONAL reason is produced; strictly above it the reason is produced
\* and MAX_NOTIONAL adds exactly 0.6 to rule_score, also when the rules table
\* holds more than one active MAX_NOTIONAL row.
C12_MaxNotionalAddsSixTenths ==
  (call.fn = "rule_based_score" /\ ret.raised = ""
     /\ Cardinality(MaxNotionalThresholds(call.rules)) = 1)
  => LET thr == CHOOSE x \in MaxNotionalThresholds(call.rules) : TRUE
         rest == rule_based_score(call.trade, WithoutMaxNotional(call.rules), call.sanctions)
     IN  IF call.trade["notional"][1] <= thr
           THEN NotionalReasons(ret.reasons) = {} /\ ret.score = rest.score
           ELSE NotionalReasons(ret.reasons) # {} /\ ret.score = rest.score + 60

\* the banker-facing phrases of TRANSLATE
Phrases == {TRANSLATE[k][2] : k \in 1..Len(TRANSLATE)}

\* C13: a trade breaching the four active rules gets rule_score 3.1, BLOCK,
\* CRITICAL, and each of its four raw reasons is persisted as a translated
\* phrase, none as the raw rule string.
C13_AllFourBreached ==
  (/\ call.fn = "score_trade"
   /\ call.rules = SeedRules
   /\ call.sanctions = <<>>
   /\ call.trade["notional"] = <<250000>>
   /\ call.trade["country"] = <<"RU">>
   /\ call.trade["kyc_ok"] = <<0>>
   /\ call.trade["aml_flag"] = <<1>>)
  => /\ ret.raised = ""
     /\ ret.rule_score = 310
     /\ ret.decision = "BLOCK"
     /\ ret.severity = "CRITICAL"
     /\ Len(ret.reasons) = 4
     /\ \A k \in 1..Len(ret.reasons) :
          ret.reasons[k] \in Phrases /\ ret.reasons[k] # ret.raw_reasons[k]

\* C14: _persist_scores_auto takes the first of the layouts newer, older,
\* minimal whose required columns are all in the table, its INSERT names only
\* columns of that layout (and trade_id), and on a table with the older layout
\* the write succeeds without naming a column only the newer layout has.
C14_FirstLayoutPresent ==
  call.fn = "_persist_scores_auto"
  => LET order == <<"newer", "older", "minimal">>
         Required(l) == CASE l = "newer" -> NewerRequired
                          [] l = "older" -> OlderRequired
                          [] l = "minimal" -> {"trade_id", "combined_score", "decision"}
         present == {k \in 1..3 : Required(order[k]) \subseteq call.cols}
         newerOnly == NewerRequired \ OlderRequired
     IN  /\ present # {}
              => ret.layout = order[CHOOSE k \in present : \A h \in present : k <= h]
         /\ ret.columns \subseteq Required(ret.layout) \cup {"trade_id"}
         /\ (/\ OlderRequired \cup {"trade_id"} \subseteq call.cols
             /\ ~(NewerRequired \subseteq call.cols))
              => /\ ret.raised = ""
                 /\ ret.layout = "older"
                 /\ ret.columns \cap newerOnly = {}

\* _persist_scores_auto wrote to the risk_scores table db_init creates
C14_Witness ==
  /\ call.fn = "_persist_scores_auto"
  /\ call.cols = InitScoreCols
  /\ ret.layout = "older"
  /\ ret.raised = ""

\* C15: _insert_alert_auto prefers the severity column: with both a severity
\* and a level column the severity goes to the severity column, and the level
\* column is used only when there is no severity column.
C15_SeverityPreferred ==
  call.fn = "_insert_alert_auto"
  => /\ {"trade_id", "severity", "level", "message"} \subseteq call.cols
          => (ret.table = "alerts" /\ ret.row.kind = "severity")
     /\ (ret.table = "alerts" /\ ret.row.kind = "level")
          => "severity" \notin call.cols

\* C16: whatever the columns of risk_scores, also when they match none of the
\* known layouts, _persist_scores_auto completes without raising an error.
C16_SchemaMismatchNeverFatal ==
  call.fn = "_persist_scores_auto"
  => /\ ret.raised = ""
     /\ (~(NewerRequired \subseteq call.cols) /\ ~(OlderRequired \subseteq call.cols))
          => ret.layout = "minimal"

\* a column value that is missing from a trade: no key, or NULL
Missing(trade, key) == key \notin DOMAIN trade \/ trade[key] = <<>>

\* names of the active rules of a rules table
ActiveNames(rules_table) ==
  {rules_table[k].rule_name : k \in {j \in 1..Len(rules_table) : rules_table[j].active = 1}}

InSeq(x, seq) == \E k \in 1..Len(seq) : seq[k] = x

\* C17: evaluating a trade whose kyc_ok or aml_flag is missing (absent or
\* NULL) never fails: a missing kyc_ok counts as not verified (REQUIRE_KYC
\* fires), a missing aml_flag as not flagged (AML_FLAG_BLOCK does not fire).
C17_MissingFlagsDefault ==
  (call.fn = "rule_based_score"
     /\ (Missing(call.trade, "kyc_ok") \/ Missing(call.trade, "aml_flag")))
  => /\ ret.raised = ""
     /\ (Missing(call.trade, "kyc_ok") /\ "REQUIRE_KYC" \in ActiveNames(call.rules))
          => InSeq("KYC not verified", ret.reasons)
     /\ Missing(call.trade, "aml_flag")
          => ~InSeq("AML system flagged", ret.reasons)

\* what records the alert of a trade: its rows in alerts, and the
\* ALERT_FALLBACK rows _insert_alert_auto puts in risk_scores instead
AlertRecords(trade_id) ==
  {<<"alerts", k>> : k \in {j \in 1..Len(alerts) : alerts[j].trade_id = trade_id}}
    \cup {<<"risk_scores", k>> : k \in {j \in 1..Len(risk_scores) :
            risk_scores[j].trade_id = trade_id /\ risk_scores[j].kind = "ALERT_FALLBACK"}}

\* the alert write of the trade is the loop's next step
AlertPending(id) == pc = "alert" /\ rows[i].id = id

\* C18: whatever the loop iterations, crashes and restarts, no trade has more
\* than one Alert, a PROCESSED trade has no Alert only if its alert write
\* failed, and a failed or missing alert leaves the trade's ScoreResult.
C18_OneAlertUnlessWriteFailed ==
  \A id \in Ids :
    /\ Cardinality(AlertRecords(trades[id].trade_id)) <= 1
    /\ (IsProcessed(id) /\ AlertRecords(trades[id].trade_id) = {} /\ ~AlertPending(id))
         => trades[id].trade_id \in alert_failed
    /\ (IsProcessed(id) /\ AlertRecords(trades[id].trade_id) = {}) => Scored(id)

\* C20: the loop sleeps exactly when a fetch returned no NEW trade: after an
\* empty fetch it sleeps and then fetches again, after a non-empty batch it
\* fetches again at once.
C20_SleepsIffEmptyFetch ==
  [][/\ (pc = "fetch" /\ pc' \in Running \ {"fetch"})
          => (pc' = "sleep" <=> \A id \in Ids : ~IsNew(id))
     /\ (pc' = "sleep" /\ pc # "sleep") => pc = "fetch"
     /\ (pc = "sleep" /\ pc' \in Running \ {"sleep"}) => pc' = "fetch"
     /\ (pc = "commit" /\ pc' \in Running \ {"commit"}) => pc' = "fetch"]_vars

\* the loop sleeps after an empty fetch that followed a batch, and a trade
\* has arrived since
C20_Witness ==
  /\ pc = "sleep"
  /\ \E id \in Ids : IsProcessed(id)
  /\ \E id \in Ids : IsNew(id)

\* the rule names rule_based_score knows
Recognized == {"MAX_NOTIONAL", "BLACKLIST_COUNTRY", "REQUIRE_KYC", "AML_FLAG_BLOCK"}

\* the condition of a rule row holds for a trade
Holds(rule, trade) ==
  CASE rule.rule_name = "MAX_NOTIONAL" -> trade["notional"][1] > rule.threshold
    [] rule.rule_name = "BLACKLIST_COUNTRY" ->
         \E k \in 1..Len(Split(rule.param, "|")) :
           Contains(trade["country"][1], Split(rule.param, "|")[k])
    [] rule.rule_name = "REQUIRE_KYC" ->
         "kyc_ok" \notin DOMAIN trade \/ trade["kyc_ok"] # <<1>>
    [] rule.rule_name = "AML_FLAG_BLOCK" ->
         "aml_flag" \in DOMAIN trade /\ trade["aml_flag"] = <<1>>
    [] OTHER -> FALSE

\* weight and start of the reason of a rule
Weight(name) ==
  CASE name = "MAX_NOTIONAL" -> 60 [] name = "BLACKLIST_COUNTRY" -> 80
    [] name = "REQUIRE_KYC" -> 70 [] name = "AML_FLAG_BLOCK" -> 100

ReasonStart(name) ==
  CASE name = "MAX_NOTIONAL" -> "Notional " [] name = "BLACKLIST_COUNTRY" -> "Blacklisted country: "
    [] name = "REQUIRE_KYC" -> "KYC not verified" [] name = "AML_FLAG_BLOCK" -> "AML system flagged"

\* the rows of a rules table that add a weight for a trade, in table order
Firing(rules_table, trade) ==
  SelectSeq(rules_table, LAMBDA r : r.active = 1 /\ r.rule_name \in Recognized /\ Holds(r, trade))

RECURSIVE SumWeights(_)
SumWeights(rs) == IF rs = <<>> THEN 0 ELSE Weight(Head(rs).rule_name) + SumWeights(Tail(rs))

\* two characters are the same letter, whatever their case
SameLetter(x, y) == x = y \/ \E k \in 1..26 : {x, y} = {Upper[k], Lower[k]}

EqualIgnoringCase(a, b) ==
  /\ Len(a) = Len(b)
  /\ \A j \in 1..Len(a) : SameLetter(SubSeq(a, j, j), SubSeq(b, j, j))

\* the counterparty of a trade is the name of some sanctions entry
Sanctioned(trade, sanctions_table) ==
  \E k \in 1..Len(sanctions_table) :
    EqualIgnoringCase(trade["counterparty"][1], sanctions_table[k])

\* C21: the rule_score returned is the sum of the weights of every active rule
\* row whose condition holds plus 1.2 for a sanctioned counterparty, without
\* cap or early exit; inactive rows and rows of unknown name add nothing; the
\* reasons come in rule order, one per added weight.
C21_ScoreIsSumOfWeights ==
  (call.fn = "rule_based_score" /\ ret.raised = "")
  => LET f == Firing(call.rules, call.trade)
         sanc == IF Sanctioned(call.trade, call.sanctions) THEN 1 ELSE 0
     IN  /\ ret.score = SumWeights(f) + 120 * sanc
         /\ Len(ret.reasons) = Len(f) + sanc
         /\ \A k \in 1..Len(f) : StartsWith(ret.reasons[k], ReasonStart(f[k].rule_name))

\* every rule of the doubled seed fired and the counterparty is sanctioned:
\* eight weights and 1.2 were added
C21_Witness ==
  /\ call.fn = "rule_based_score"
  /\ call.rules = SeedRules \o SeedRules
  /\ ret.raised = ""
  /\ ret.score = 740
  /\ Len(ret.reasons) = 9

\* occurrences of a string in a sequence
Occurrences(x, seq) == {k \in 1..Len(seq) : seq[k] = x}

\* C22: the sanctions check adds 1.2 and "Counterparty on sanctions list"
\* exactly once, as the last reason, if and only if the counterparty equals,
\* ignoring case, the name of a sanctions entry, whatever the rules and the
\* number of matching entries.
C22_SanctionsOnceIffListed ==
  (call.fn = "rule_based_score" /\ ret.raised = "")
  => LET unlisted == rule_based_score(call.trade, call.rules, <<>>)
         n == Cardinality(Occurrences("Counterparty on sanctions list", ret.reasons))
     IN  IF Sanctioned(call.trade, call.sanctions)
           THEN /\ n = 1
                /\ ret.reasons[Len(ret.reasons)] = "Counterparty on sanctions list"
                /\ ret.score = unlisted.score + 120
                /\ Len(ret.reasons) = Len(unlisted.reasons) + 1
           ELSE n = 0 /\ ret = unlisted

\* a counterparty matching two entries that differ from it in case or not
C22_Witness ==
  /\ call.fn = "rule_based_score"
  /\ call.trade["counterparty"] = <<"Shadow Corp">>
  /\ call.sanctions = <<"Acme", "shadow corp", "Shadow Corp">>
  /\ ret.raised = ""
  /\ ret.reasons[Len(ret.reasons)] = "Counterparty on sanctions list"

\* the prefixes of the mapping and their phrases, in the mapping's order
KnownPrefixes ==
  << <<"Notional", "Deal is bigger than our limit">>,
     <<"Country in blacklist", "Counterparty country is restricted">>,
     <<"KYC missing", "KYC not completed">>,
     <<"AML flag present", "AML system has red flags">>,
     <<"Sanctions name match", "Possible sanctions list match">> >>

\* C23: _translate_reasons keeps order and length: output i is the phrase of
\* the first mapping entry whose prefix raw reason i starts with, or raw
\* reason i itself when there is none; a notional-breach reason becomes "Deal
\* is bigger than our limit" whatever its numbers.
C23_TranslateKeepsOrderAndLength ==
  call.fn = "_translate_reasons"
  => /\ Len(ret.pretty) = Len(call.raw_reasons)
     /\ \A k \in 1..Len(call.raw_reasons) :
          LET r == call.raw_reasons[k]
              hits == {h \in 1..Len(KnownPrefixes) : StartsWith(r, KnownPrefixes[h][1])}
          IN  /\ hits = {} => ret.pretty[k] = r
              /\ hits # {} =>
                   ret.pretty[k] = KnownPrefixes[CHOOSE h \in hits : \A g \in hits : h <= g][2]
              /\ StartsWith(r, "Notional ") => ret.pretty[k] = "Deal is bigger than our limit"

\* a notional breach after a reason without mapping entry
C23_Witness ==
  /\ call.fn = "_translate_reasons"
  /\ call.raw_reasons = <<"KYC not verified", "Notional 7.5 > 1.0">>
  /\ ret.pretty = <<"KYC not verified", "Deal is bigger than our limit">>


EndsWith(s, suffix) ==
  Len(s) >= Len(suffix) /\ SubSeq(s, Len(s) - Len(suffix) + 1, Len(s)) = suffix

\* the trade of the call made no active rule's condition hold and its
\* counterparty is on no sanctions entry
Benign == Firing(call.rules, call.trade) = <<>> /\ ~Sanctioned(call.trade, call.sanctions)

\* the decisions of a ScoreResult
Decisions == {"ALLOW", "REVIEW", "BLOCK"}

\* a row of risk_scores is a ScoreResult: a decision of _decide and the
\* combined score the sum of the two scores its layout stores
IsScoreResult(row) ==
  /\ row.decision \in Decisions
  /\ "rule_score" \in DOMAIN row => row.combined_score = row.rule_score + row.ml_score
  /\ "base_rule_score" \in DOMAIN row =>
       row.combined_score = row.base_rule_score + row.ml_anomaly_score

\* a row of risk_scores is the last resort of the alert write
IsAlertFallback(row) ==
  /\ row.combined_score = 0
  /\ \E sev \in {"INFO", "WARNING", "CRITICAL"} : row.decision = "ALERT_FALLBACK:" \o sev

\* rule_score + anomaly score of the trade of the call, from the rule rows
\* whose condition holds and the sanctions entries
CombinedOfCall ==
  SumWeights(Firing(call.rules, call.trade))
    + (IF Sanctioned(call.trade, call.sanctions) THEN 120 ELSE 0) + call.ml_s

\* C25 as stated: every row written to risk_scores for a trade is a ScoreResult
\* with decision in {ALLOW, REVIEW, BLOCK} and combined_score = rule_score +
\* anomaly score, whatever the layouts of risk_scores and alerts.
C25_EveryScoreRowIsScoreResult ==
  call.fn = "process_trade" =>
    \A k \in 1..Len(ret.score_rows) :
      IsScoreResult(ret.score_rows[k]) /\ ret.score_rows[k].combined_score = CombinedOfCall

\* C25, amended: the first row written to risk_scores for a trade is its
\* ScoreResult (decision in {ALLOW, REVIEW, BLOCK}, combined_score = rule_score
\* + anomaly score); a second row is written exactly when alerts lacks trade_id
\* or message, and it is the alert stand-in: same trade, combined_score 0,
\* decision "ALERT_FALLBACK:<severity>", nothing written to alerts.
C25_ScoreRowOrAlertFallback ==
  (call.fn = "process_trade" /\ ret.raised = "") =>
    /\ Len(ret.score_rows) >= 1
    /\ IsScoreResult(ret.score_rows[1])
    /\ ret.score_rows[1].combined_score = CombinedOfCall
    /\ IF {"trade_id", "message"} \subseteq call.alert_cols
         THEN Len(ret.score_rows) = 1 /\ Len(ret.alert_rows) = 1
         ELSE /\ Len(ret.score_rows) = 2 /\ ret.alert_rows = <<>>
              /\ IsAlertFallback(ret.score_rows[2])
              /\ ret.score_rows[2].trade_id = ret.score_rows[1].trade_id
              /\ ret.score_rows[2].decision =
                   "ALERT_FALLBACK:" \o decide(ret.score_rows[1].combined_score).severity

C25_Witness ==
  /\ call.fn = "process_trade" /\ ret.raised = ""
  /\ Len(ret.score_rows) = 2
  /\ ret.score_rows[1].decision = "BLOCK"
  /\ ret.score_rows[2].decision = "ALERT_FALLBACK:CRITICAL"

\* C28: a trade that makes no active rule's condition hold and whose counterparty
\* is not sanctioned gets rule_score 0 and an empty reasons list; the reason text
\* stored with its score and the message of its alert read "No rule violations";
\* with an anomaly score below 0.9 its decision is ALLOW and its severity INFO.
C28_BenignTrade ==
  /\ (call.fn = "score_trade" /\ ret.raised = "" /\ Benign) =>
       /\ ret.rule_score = 0
       /\ ret.raw_reasons = <<>> /\ ret.reasons = <<>>
       /\ ret.reasons_str = "No rule violations"
       /\ ret.combined = call.ml_s
       /\ call.ml_s < 90 => ret.decision = "ALLOW" /\ ret.severity = "INFO"
  /\ (call.fn = "process_trade" /\ ret.raised = "" /\ Benign) =>
       /\ \A k \in 1..Len(ret.score_rows) :
            LET row == ret.score_rows[k]
            IN  /\ "reasons" \in DOMAIN row => row.reasons = "No rule violations"
                /\ "reason" \in DOMAIN row => row.reason = "No rule violations"
                /\ "rule_score" \in DOMAIN row => row.rule_score = 0
                /\ "base_rule_score" \in DOMAIN row => row.base_rule_score = 0
                /\ (k = 1 /\ call.ml_s < 90) => row.decision = "ALLOW"
       /\ \A k \in 1..Len(ret.alert_rows) :
            /\ EndsWith(ret.alert_rows[k].message, " reasons: No rule violations")
            /\ call.ml_s < 90 => StartsWith(ret.alert_rows[k].message, "ALLOW trade ")

C28_Witness ==
  /\ call.fn = "process_trade" /\ ret.raised = "" /\ Benign
  /\ call.ml_s = 50
  /\ \E j \in 1..Len(call.rules) : call.rules[j].active = 1
  /\ call.sanctions # <<>>
  /\ Len(ret.score_rows) = 1 /\ "reason" \in DOMAIN ret.score_rows[1]
  /\ Len(ret.alert_rows) = 1
  /\ ret.alert_rows[1].message = "ALLOW trade T1 score=0.50 reasons: No rule violations"


\* the three writes of the loop, as changes of the store
ScoreWritten ==
  /\ Len(risk_scores') = Len(risk_scores) + 1
  /\ risk_scores'[Len(risk_scores')].kind = "SCORE"

StatusFlipped == \E id \in Ids : trades'[id].status # trades[id].status

AlertWritten ==
  \/ Len(alerts') = Len(alerts) + 1
  \/ /\ Len(risk_scores') = Len(risk_scores) + 1
     /\ risk_scores'[Len(risk_scores')].kind = "ALERT_FALLBACK"

\* the trade the loop is at, and the earlier and later ones of its batch
Current == rows[i]

EarlierDone ==
  \A k \in 1..(i - 1) :
    /\ rows[k].id < Current.id
    /\ IsProcessed(rows[k].id) /\ Scored(rows[k].id)
    /\ AlertRecords(rows[k].trade_id) # {}

LaterUntouched ==
  \A k \in (i + 1)..Len(rows) :
    /\ rows[k].id > Current.id
    /\ IsNew(rows[k].id) /\ AlertRecords(rows[k].trade_id) = {}

\* C27: the trades of a batch are handled one after another in ascending id;
\* for each the score is written first, then the status is flipped, then the
\* alert is written; each write for a trade happens after the alert write of
\* every earlier trade of the batch and before any write for a later one.
C27_WritesInOrder ==
  [][ /\ (ScoreWritten \/ StatusFlipped \/ AlertWritten) =>
          /\ pc \in {"score", "mark", "alert"} /\ i \in 1..Len(rows)
          /\ EarlierDone /\ LaterUntouched
      /\ ScoreWritten =>
          /\ pc = "score"
          /\ risk_scores'[Len(risk_scores')].trade_id = Current.trade_id
          /\ IsNew(Current.id) /\ AlertRecords(Current.trade_id) = {}
      /\ StatusFlipped =>
          /\ pc = "mark"
          /\ \A id \in Ids : trades'[id].status # trades[id].status => id = Current.id
          /\ Scored(Current.id) /\ AlertRecords(Current.trade_id) = {}
      /\ AlertWritten =>
          /\ pc = "alert"
          /\ \/ /\ Len(alerts') = Len(alerts) + 1
                /\ alerts'[Len(alerts')].trade_id = Current.trade_id
             \/ /\ Len(risk_scores') = Len(risk_scores) + 1
                /\ risk_scores'[Len(risk_scores')].trade_id = Current.trade_id
          /\ AlertRecords(Current.trade_id) = {}
          /\ Scored(Current.id) /\ IsProcessed(Current.id)
          /\ i' \in {i, i + 1} /\ rows' = rows
    ]_vars

\* the second trade of a batch is about to be scored after the first got its
\* score, its status and its alert
C27_Witness ==
  /\ pc = "score" /\ i = 2 /\ Len(rows) >= 2
  /\ EarlierDone /\ LaterUntouched
  /\ ~Scored(rows[2].id)


\* C24: the active rules and the sanctions list are read once per batch: all
\* the trades of a batch are evaluated against the same rules and sanctions,
\* and a change made while the batch is in flight is seen from the next batch.
C24_OneSnapshotPerBatch ==
  \A j, k \in 1..Len(seen) : seen[j] = seen[k]

\* C26: a trade's status only moves from NEW to PROCESSED; only the loop's
\* UPDATE changes it and it changes exactly the trade whose id was fetched; the
\* generator only adds rows with status NEW; no trade is ever deleted; no step
\* of the loop changes the rules or the sanctions.
C26_StatusFrame ==
  [][ /\ Len(trades') >= Len(trades)
      /\ \A id \in Ids :
           /\ trades'[id].trade_id = trades[id].trade_id
           /\ trades'[id].status # trades[id].status =>
                /\ IsNew(id) /\ trades'[id].status = "PROCESSED"
                /\ pc = "mark" /\ pc' = "alert"
                /\ rows[i].id = id
      /\ \A id \in (Len(trades) + 1)..Len(trades') :
           trades'[id].status = "NEW" /\ pc' = pc
      /\ (rules' # rules \/ sanctions' # sanctions) =>
           UNCHANGED <<pc, rows, i, store>>
      /\ pc' # pc => UNCHANGED <<rules, sanctions>>
    ]_vars

\* a trade of a batch of several has been flipped while another fetched trade
\* is still NEW, after the rules changed under the running processor
C26_Witness ==
  /\ pc = "alert" /\ Len(rows) >= 2
  /\ IsProcessed(rows[i].id)
  /\ \E k \in 1..Len(rows) : IsNew(rows[k].id)
  /\ Len(rules) > Len(SeedRules)

====
